---- MODULE Spec2Model ----
(***************************************************************************)
(* Model of the audio capture pipeline of audio_transcriber:               *)
(*   audio/recorder.py    AudioRecorder (start/stop/pause/resume, buffer)  *)
(*   gui/recorder_gui.py  AudioRecorderGUI._audio_callback (the observer)  *)
(*   gui/visualization.py AudioVisualizer.update / _process_audio_queue    *)
(*   gui/plot.py          AudioPlot.update_plot                            *)
(*                                                                         *)
(* Two kinds of threads act on the recorder: the GUI thread, which calls   *)
(* the public methods one at a time (gpc is its position), and one driver  *)
(* thread per started input stream, which runs audio_callback (cb[s] is    *)
(* its position).  The sounddevice stream is an external object; its       *)
(* constructor, start(), stop() and close() may each succeed or raise.     *)
(*                                                                         *)
(* The module also models                                                  *)
(*   audio/transcription.py  TranscriptionManager: the job queue, the      *)
(*                           worker threads running _process_queue, the    *)
(*                           model and the lock around model.transcribe    *)
(*   audio/recorder.py       AudioRecorder.save_recording (float samples   *)
(*                           to a 16-bit WAV file)                         *)
(* Each part has its own specification; the variables of the other parts   *)
(* stay at their initial values in it.                                     *)
(***************************************************************************)
EXTENDS Integers, Sequences, FiniteSets, TLC

\* ---------------------------------------------------------------- bounds
MaxBlocks  == 3     \* hardware blocks the driver delivers in a behaviour
MaxStreams == 2     \* input streams that can be open at the same time
BlockSize  == 2     \* frames per block (AudioConfig.blocksize, scaled down)
MaxPlot    == 3     \* samples AudioPlot is fed before the model stops plotting
MaxJobs    == 2     \* transcribe_audio calls in a behaviour
MaxWorkers == 2     \* worker threads that exist at the same time
MaxModels  == 2     \* model objects that can be in memory at the same time
MaxSaveBlocks == 2  \* blocks in a buffer handed to save_recording
SampleUnit == 8     \* a float sample x is held as the integer x * SampleUnit
MaxDevices == 2     \* devices the device layer reports at the same time

\* ------------------------------------------------------------- constants
NoStream == 0       \* self.stream = None

\* The observer handed to start_recording(callback=...):
\*   "none" no callback, "fwd" a (indata, time) callable that forwards the
\*   block to AudioVisualizer.update, "gui" AudioRecorderGUI._audio_callback.
Observers == {"none", "fwd", "gui"}

\* What the stream layer does in one start_recording call.
StartOutcomes == {"ok", "openfail", "startfail"}

\* What the stream layer does in one stop_recording call.
StopOutcomes == {"ok", "stopfail", "closefail"}

Streams == 1..MaxStreams

\* save_recording: the factor of line 123, the sample width of line 127,
\* AudioConfig.channels (line 16).
Int16Scale == 32767
SampWidth == 2
Channels == 1

\* Values of AudioConfig.sample_rate.
SampleRates == {16000, 44100}

\* Float samples in [-1.0, 1.0] (as multiples of 1 / SampleUnit): -1.0, the
\* smallest negative step, 0.5 (rounded down to a step), 1.0.
SampleValues == {-SampleUnit, -1, SampleUnit \div 2, SampleUnit}

\* Samples inside and outside [-1.0, 1.0]: -2.0, just below -1.0, -1.0, 0.5,
\* 1.0, just above 1.0, 2.0.
LoudValues == {-2 * SampleUnit, -SampleUnit - 1, -SampleUnit, SampleUnit \div 2,
               SampleUnit, SampleUnit + 1, 2 * SampleUnit}

\* What the build does with a value outside the int16 range in np.int16(...).
CastOutcomes == {"wrap", "saturate"}

\* No file has been written.
NoFile == [nchannels |-> 0, sampwidth |-> 0, framerate |-> 0, nframes |-> 0,
           data |-> <<>>]

\* self.model: None, or the attribute removed by "del self.model".
NoModel == 0
Deleted == -1
ModelIds == 1..MaxModels

\* self._process_thread = None; the lock of _transcribe held by nobody.
NoThread == 0

\* The threads that call the manager's public methods: one that owns the
\* manager (start_processing, stop_processing, initialize_model) and one that
\* submits jobs (transcribe_audio).
Clients == {"control", "submit"}
Workers == 1..MaxWorkers
Jobs == 1..MaxJobs

\* The callback of a job (transcribe_audio's second argument) when the worker
\* comes to it: there is none, it returns, or it raises.
Callbacks == {"none", "ok", "raise"}

\* What model.transcribe, with the processing of its result (transcription.py
\* lines 104-126), does in one call.
InferOutcomes == {"ok", "raise"}

VARIABLES
    recording,     \* self.recording
    paused,        \* self.paused
    stream,        \* self.stream: NoStream or the id of the stream it holds
    sstate,        \* sstate[s]: stream s at the device layer: "closed",
                   \* "open" (not started, or stopped), "active" (started:
                   \* it delivers callbacks), "aborted" (an exception left
                   \* its audio_callback; it delivers no more callbacks)
    sobs,          \* sobs[s]: the observer captured by stream s's closure
    buffer,        \* self._audio_buffer: sequence of copied blocks
    hw,            \* number of hardware blocks delivered so far
    cb,            \* cb[s]: position of stream s's audio_callback invocation
    gpc,           \* position of the GUI thread inside a recorder method
    caller,        \* who called get_audio_data: "api" or "plot"
    vqueue,        \* AudioVisualizer.queue
    vizReceived,   \* blocks AudioVisualizer._update_visualizations was given
    plotReceived,  \* samples AudioPlot.update_plot wrote into plot_data
    log,           \* history: ids of the blocks appended since the buffer
                   \* was last cleared, in append order
    quiet,         \* history: stop_recording returned, no start_recording since
    ret,           \* outcome of the last completed GUI call: the path it
                   \* took ("flag" for pause, resume and clear), whether it
                   \* raised, the value it returned
    model,              \* self.model: NoModel, Deleted or a model's id
    isProcessing,       \* self._is_processing
    processThread,      \* self._process_thread: NoThread or a worker's id
    transcriptionQueue, \* self._transcription_queue: ids of the queued jobs
    resultQueue,        \* self._result_queue: ids of the jobs whose result
                        \* was put (get_results is not modelled: the queue
                        \* holds every result put so far)
    lock,               \* self._lock: NoThread or the worker that holds it
    worker,             \* worker[w]: position of thread w in _process_queue,
                        \* the job it took, the model its inference runs on
    client,             \* client[c]: position of thread c inside a manager
                        \* method, what follows initialize_model, the thread
                        \* it joins
    submitted,          \* number of jobs put so far; job j is the j-th put
    fate,               \* history: fate[j] is "failed" when job j's
                        \* inference raised, "raised" when its callback
                        \* raised, "called" when its callback returned
    stopCalled,         \* history: stop_processing was called
    sampleRate,    \* self.config.sample_rate
    wav,           \* the WAV file save_recording wrote: its header fields and
                   \* its data bytes
    hwDevices,     \* what sd.query_devices() reports now: the
                   \* max_input_channels of each device, in index order
    hwDefault,     \* sd.default.device[0] now: an index or NoDefault
    devices,       \* DeviceManager.devices
    dret           \* outcome of the last completed DeviceManager call

recVars == <<recording, paused, stream, sstate, sobs>>
cbVars  == <<buffer, hw, cb, vqueue, log>>
guiVars == <<gpc, caller, vizReceived, plotReceived, quiet, ret>>
tmVars  == <<model, isProcessing, processThread, transcriptionQueue,
             resultQueue, lock, worker, client, submitted, fate,
             stopCalled>>
wavVars == <<sampleRate, wav>>
devVars == <<hwDevices, hwDefault, devices, dret>>
vars    == <<recVars, cbVars, guiVars, tmVars, wavVars, devVars>>

\* ---------------------------------------------------------------- helpers
\* The samples of hardware block k (distinct blocks hold distinct samples).
Block(k) == [i \in 1..BlockSize |-> (k - 1) * BlockSize + i]

\* indata.copy(): a new array with the same samples.
Copy(b) == [i \in 1..Len(b) |-> b[i]]

\* The hardware block a buffered block was copied from.
BlockId(b) == ((b[1] - 1) \div BlockSize) + 1

RECURSIVE Concatenate(_)
\* np.concatenate(list of arrays)
Concatenate(blocks) ==
    IF blocks = <<>> THEN <<>>
    ELSE Head(blocks) \o Concatenate(Tail(blocks))

\* Return values: None, or an array of samples.
NoData == [none |-> TRUE, data |-> <<>>]
Data(d) == [none |-> FALSE, data |-> d]

\* A call that took the given path and returned None (or raised).
Returned(path) == [path |-> path, raised |-> FALSE, value |-> NoData]
Raised(path) == [path |-> path, raised |-> TRUE, value |-> NoData]

IdleCb == [pc |-> "idle", k |-> 0]

\* The identity of the next stream object: the first one not open.
FreeStreams == {s \in Streams : sstate[s] = "closed"}
NewStream == CHOOSE s \in FreeStreams : \A t \in FreeStreams : s <= t

DeadWorker == [pc |-> "dead", job |-> 0, using |-> NoModel]
IdleClient == [pc |-> "idle", then |-> "return", target |-> NoThread]

\* A thread id for the next threading.Thread: the first one that names no
\* running thread and no thread somebody is joining.
FreeWorkers ==
    {w \in Workers : /\ worker[w].pc = "dead"
                     /\ \A c \in Clients : client[c].target # w}
NewWorker == CHOOSE w \in FreeWorkers : \A v \in FreeWorkers : w <= v

\* The model objects that are in memory: the one self.model refers to and
\* the one a running model.transcribe call was made on.
Resident == ({model} \cup {worker[w].using : w \in Workers}) \cap ModelIds
FreeModels == ModelIds \ Resident
NewModel == CHOOSE m \in FreeModels : \A n \in FreeModels : m <= n

\* ---------------------------------------------------------- device layer
\* sd.default.device[0] when the system has no default input device.
NoDefault == -1

\* max_input_channels of a device: 0 for an output-only device.
ChannelCounts == {0, 1}

\* The device lists sd.query_devices() can report.
Layers == UNION {[1..n -> ChannelCounts] : n \in 0..MaxDevices}

\* The values sd.default.device[0] can have with device list l.
Defaults(l) == NoDefault..(Len(l) - 1)

\* AudioDevice(id=idx, channels=device['max_input_channels'],
\* is_default=(idx == default_device)); the name and the sample rates of a
\* device play no part in which devices are listed and are left out.
AudioDevice(idx, ch, d) == [id |-> idx, channels |-> ch, is_default |-> (idx = d)]

\* None, as the value of get_default_device.
NoDevice == [id |-> -1, channels |-> 0, is_default |-> FALSE]

\* The list _update_devices builds from device list l and default index d:
\* enumerate(sd.query_devices()) numbers the devices from 0, and a device
\* is appended when its max_input_channels > 0.
UpdateDevices(l, d) ==
    LET all == [i \in 1..Len(l) |-> AudioDevice(i - 1, l[i], d)]
    IN SelectSeq(all, LAMBDA a : a.channels > 0)

\* A DeviceManager call that returned the list or the device (or raised).
DevReturned(path, list, dev) ==
    [path |-> path, raised |-> FALSE, list |-> list, dev |-> dev]
DevRaised(path) ==
    [path |-> path, raised |-> TRUE, list |-> <<>>, dev |-> NoDevice]

\* DeviceManager(): __init__ runs _update_devices on what the layer reports.
InitDevices(l, d) ==
    /\ hwDevices = l
    /\ hwDefault = d
    /\ devices = UpdateDevices(l, d)
    /\ dret = DevReturned("init", <<>>, NoDevice)

\* ------------------------------------------------------------------- Init
\* TranscriptionManager.__init__: no model, empty queues, no worker thread.
InitManager ==
    /\ model = NoModel
    /\ isProcessing = FALSE
    /\ processThread = NoThread
    /\ transcriptionQueue = <<>>
    /\ resultQueue = <<>>
    /\ lock = NoThread
    /\ worker = [w \in Workers |-> DeadWorker]
    /\ client = [c \in Clients |-> IdleClient]
    /\ submitted = 0
    /\ fate = [j \in Jobs |-> "none"]
    /\ stopCalled = FALSE

Init ==
    /\ recording = FALSE
    /\ paused = FALSE
    /\ stream = NoStream
    /\ sstate = [s \in Streams |-> "closed"]
    /\ sobs = [s \in Streams |-> "none"]
    /\ buffer = <<>>
    /\ hw = 0
    /\ cb = [s \in Streams |-> IdleCb]
    /\ gpc = "idle"
    /\ caller = "api"
    /\ vqueue = <<>>
    /\ vizReceived = <<>>
    /\ plotReceived = <<>>
    /\ log = <<>>
    /\ quiet = FALSE
    /\ ret = Returned("init")
    /\ InitManager
    /\ sampleRate = 44100
    /\ wav = NoFile
    /\ InitDevices(<<1>>, 0)

\* ------------------------------------------------- AudioRecorder (GUI thread)
\* start_recording without its test of self.recording: a second stream is
\* opened over the one in use.
StartRecordingUnguarded(o, r) ==
    /\ gpc = "idle"
    /\ FreeStreams # {}
    /\ stream' = NewStream
    /\ sobs' = [sobs EXCEPT ![NewStream] = o]
    /\ recording' = TRUE
    /\ sstate' = [sstate EXCEPT ![NewStream] =
                     IF r = "ok" THEN "active" ELSE "open"]
    /\ ret' = IF r = "ok" THEN Returned("start_ok")
                        ELSE Raised("start_startfail")
    /\ quiet' = FALSE
    /\ UNCHANGED <<paused, cbVars, gpc, caller, vizReceived, plotReceived>>
    /\ UNCHANGED <<tmVars, wavVars, devVars>>

\* start_recording(callback=o); r is what the stream layer does.
StartRecording(o, r) ==
    /\ gpc = "idle"
    /\ IF recording
       THEN \* lines 41-43: log a warning and return
            /\ ret' = Returned("start_ignored")
            /\ UNCHANGED <<recVars, quiet>>
       ELSE /\ FreeStreams # {}
            /\ quiet' = FALSE
            /\ IF r = "openfail"
               THEN \* line 54: sd.InputStream(...) raises; lines 68-70 re-raise
                    /\ ret' = Raised("start_openfail")
                    /\ UNCHANGED recVars
               ELSE \* lines 54-65: the stream is constructed and assigned,
                    \* recording is set, then stream.start() runs
                    /\ stream' = NewStream
                    /\ sobs' = [sobs EXCEPT ![NewStream] = o]
                    /\ recording' = TRUE
                    /\ sstate' = [sstate EXCEPT ![NewStream] =
                                     IF r = "ok" THEN "active" ELSE "open"]
                    /\ ret' = IF r = "ok" THEN Returned("start_ok")
                                        ELSE Raised("start_startfail")
                    /\ UNCHANGED paused
    /\ UNCHANGED <<cbVars, gpc, caller, vizReceived, plotReceived>>
    /\ UNCHANGED <<tmVars, wavVars, devVars>>

\* stop_recording without its test of self.recording.
StopRecordingBeginUnguarded ==
    /\ gpc = "idle"
    /\ recording' = FALSE
    /\ IF stream = NoStream
       THEN /\ ret' = Returned("stop_ok")
            /\ quiet' = TRUE
            /\ UNCHANGED gpc
       ELSE /\ gpc' = "stopping"
            /\ UNCHANGED <<ret, quiet>>
    /\ UNCHANGED <<paused, stream, sstate, sobs>>
    /\ UNCHANGED <<cbVars, caller, vizReceived, plotReceived>>
    /\ UNCHANGED <<tmVars, wavVars, devVars>>

\* stop_recording, lines 74-79: the guard, the flag, the test of self.stream.
StopRecordingBegin ==
    /\ gpc = "idle"
    /\ IF ~recording
       THEN /\ ret' = Returned("stop_noop")
            /\ quiet' = TRUE
            /\ UNCHANGED <<recVars, gpc>>
       ELSE /\ recording' = FALSE
            /\ IF stream = NoStream
               THEN /\ ret' = Returned("stop_ok")
                    /\ quiet' = TRUE
                    /\ UNCHANGED gpc
               ELSE /\ gpc' = "stopping"
                    /\ UNCHANGED <<ret, quiet>>
            /\ UNCHANGED <<paused, stream, sstate, sobs>>
    /\ UNCHANGED <<cbVars, caller, vizReceived, plotReceived>>
    /\ UNCHANGED <<tmVars, wavVars, devVars>>

\* stop_recording, lines 80-86: stream.stop(), stream.close(), stream = None.
\* stream.stop() returns once the stream's callback is not running any more;
\* a call that raises leaves the stream as it was.
StopRecordingStream(r) ==
    /\ gpc = "stopping"
    /\ gpc' = "idle"
    /\ \/ /\ r = "ok"
          /\ cb[stream].pc = "idle"
          /\ sstate' = [sstate EXCEPT ![stream] = "closed"]
          /\ sobs' = [sobs EXCEPT ![stream] = "none"]
          /\ stream' = NoStream
          /\ ret' = Returned("stop_ok")
          /\ quiet' = TRUE
       \/ /\ r = "stopfail"
          /\ ret' = Raised("stop_stopfail")
          /\ UNCHANGED <<sstate, sobs, stream, quiet>>
       \/ /\ r = "closefail"
          /\ cb[stream].pc = "idle"
          /\ sstate' = [sstate EXCEPT ![stream] = "open"]
          /\ ret' = Raised("stop_closefail")
          /\ UNCHANGED <<sobs, stream, quiet>>
    /\ UNCHANGED <<recording, paused>>
    /\ UNCHANGED <<cbVars, caller, vizReceived, plotReceived>>
    /\ UNCHANGED <<tmVars, wavVars, devVars>>

\* pause_recording, lines 88-92
PauseRecording ==
    /\ gpc = "idle"
    /\ paused' = TRUE
    /\ ret' = Returned("flag")
    /\ UNCHANGED <<recording, stream, sstate, sobs>>
    /\ UNCHANGED <<cbVars, gpc, caller, vizReceived, plotReceived, quiet>>
    /\ UNCHANGED <<tmVars, wavVars, devVars>>

\* resume_recording, lines 94-98
ResumeRecording ==
    /\ gpc = "idle"
    /\ paused' = FALSE
    /\ ret' = Returned("flag")
    /\ UNCHANGED <<recording, stream, sstate, sobs>>
    /\ UNCHANGED <<cbVars, gpc, caller, vizReceived, plotReceived, quiet>>
    /\ UNCHANGED <<tmVars, wavVars, devVars>>

\* clear_buffer, lines 138-142
ClearBuffer ==
    /\ gpc = "idle"
    /\ buffer # <<>>
    /\ buffer' = <<>>
    /\ log' = <<>>
    /\ ret' = Returned("flag")
    /\ UNCHANGED <<recVars, hw, cb, vqueue>>
    /\ UNCHANGED <<gpc, caller, vizReceived, plotReceived, quiet>>
    /\ UNCHANGED <<tmVars, wavVars, devVars>>

\* The same three methods with the time they hold self._lock made visible:
\* "with self._lock:" is entered in one step (lines 90, 96, 140) and the
\* body runs and the lock is released in another.  The GUI thread holds the
\* lock while gpc is "pausing", "resuming" or "clearing".
LockOps == {"pausing", "resuming", "clearing"}

LockHeld == gpc \in LockOps

WithLock(op) ==
    /\ gpc = "idle"
    /\ gpc' = op
    /\ UNCHANGED <<recVars, cbVars, caller, vizReceived, plotReceived, quiet,
                   ret>>
    /\ UNCHANGED <<tmVars, wavVars, devVars>>

\* lines 91-92, 97-98, 141-142: the body, then the lock is released.
LockedBody ==
    /\ LockHeld
    /\ gpc' = "idle"
    /\ paused' = IF gpc = "pausing" THEN TRUE
                 ELSE IF gpc = "resuming" THEN FALSE ELSE paused
    /\ buffer' = IF gpc = "clearing" THEN <<>> ELSE buffer
    /\ log' = IF gpc = "clearing" THEN <<>> ELSE log
    /\ ret' = Returned("flag")
    /\ UNCHANGED <<recording, stream, sstate, sobs>>
    /\ UNCHANGED <<hw, cb, vqueue, caller, vizReceived, plotReceived, quiet>>
    /\ UNCHANGED <<tmVars, wavVars, devVars>>

\* get_audio_data, lines 102-103, called by the application (c = "api") or
\* by AudioPlot.update_plot (c = "plot", plot.py line 23).
GetAudioDataBegin(c) ==
    /\ gpc = "idle"
    /\ c = "plot" => Len(plotReceived) < MaxPlot
    /\ caller' = c
    /\ IF buffer = <<>>
       THEN /\ ret' = Returned(IF c = "plot" THEN "plot_none" ELSE "get_none")
            /\ UNCHANGED gpc
       ELSE /\ gpc' = "concat"
            /\ UNCHANGED ret
    /\ UNCHANGED <<recVars, cbVars, vizReceived, plotReceived, quiet>>
    /\ UNCHANGED <<tmVars, wavVars, devVars>>

\* get_audio_data, line 104; for update_plot also plot.py lines 24-33.
GetAudioDataConcat ==
    /\ gpc = "concat"
    /\ gpc' = "idle"
    /\ IF caller = "plot"
       THEN /\ plotReceived' = plotReceived \o Concatenate(buffer)
            /\ ret' = Returned("plot")
       ELSE /\ ret' = [path |-> "get_data", raised |-> FALSE,
                       value |-> Data(Concatenate(buffer))]
            /\ UNCHANGED plotReceived
    /\ UNCHANGED <<recVars, cbVars, caller, vizReceived, quiet>>
    /\ UNCHANGED <<tmVars, wavVars, devVars>>

\* ------------------------------------------- audio_callback (driver thread)
\* audio_callback without its test of self.paused.
CallbackEnterIgnoringPause(s) ==
    /\ sstate[s] = "active"
    /\ cb[s].pc = "idle"
    /\ hw < MaxBlocks
    /\ hw' = hw + 1
    /\ cb' = [cb EXCEPT ![s] = [pc |-> "append", k |-> hw + 1]]
    /\ UNCHANGED <<recVars, guiVars, buffer, vqueue, log>>
    /\ UNCHANGED <<tmVars, wavVars, devVars>>

\* audio_callback putting the new block in front of the buffer.
CallbackAppendInFront(s) ==
    /\ cb[s].pc = "append"
    /\ buffer' = <<Copy(Block(cb[s].k))>> \o buffer
    /\ log' = Append(log, cb[s].k)
    /\ cb' = [cb EXCEPT ![s] = IF sobs[s] = "none" THEN IdleCb
                               ELSE [pc |-> "observe", k |-> cb[s].k]]
    /\ UNCHANGED <<recVars, guiVars, hw, vqueue>>
    /\ UNCHANGED <<tmVars, wavVars, devVars>>

\* recorder.py lines 46-49: the driver hands block hw+1 to stream s's callback,
\* which reads self.paused.
CallbackEnter(s) ==
    /\ sstate[s] = "active"
    /\ cb[s].pc = "idle"
    /\ hw < MaxBlocks
    /\ hw' = hw + 1
    /\ cb' = [cb EXCEPT ![s] = IF paused THEN IdleCb
                               ELSE [pc |-> "append", k |-> hw + 1]]
    /\ UNCHANGED <<recVars, guiVars, buffer, vqueue, log>>
    /\ UNCHANGED <<tmVars, wavVars, devVars>>

\* audio_callback taking self._lock around its append.
CallbackAppendLocked(s) ==
    /\ cb[s].pc = "append"
    /\ ~LockHeld
    /\ buffer' = Append(buffer, Copy(Block(cb[s].k)))
    /\ log' = Append(log, cb[s].k)
    /\ cb' = [cb EXCEPT ![s] = IF sobs[s] = "none" THEN IdleCb
                               ELSE [pc |-> "observe", k |-> cb[s].k]]
    /\ UNCHANGED <<recVars, guiVars, hw, vqueue>>
    /\ UNCHANGED <<tmVars, wavVars, devVars>>

\* recorder.py lines 50-51: self._audio_buffer.append(indata.copy())
CallbackAppend(s) ==
    /\ cb[s].pc = "append"
    /\ buffer' = Append(buffer, Copy(Block(cb[s].k)))
    /\ log' = Append(log, cb[s].k)
    /\ cb' = [cb EXCEPT ![s] = IF sobs[s] = "none" THEN IdleCb
                               ELSE [pc |-> "observe", k |-> cb[s].k]]
    /\ UNCHANGED <<recVars, guiVars, hw, vqueue>>
    /\ UNCHANGED <<tmVars, wavVars, devVars>>

\* recorder.py line 52: callback(indata, time).
\*   "fwd": the observer calls AudioVisualizer.update(indata)
\*          (visualization.py lines 147-149).
\*   "gui": AudioRecorderGUI._audio_callback(indata, frames, time_info, status)
\*          (recorder_gui.py line 188) is called with two arguments and raises
\*          TypeError; nothing in audio_callback catches it, so it reaches the
\*          stream layer, which does not call a callback again after it raised.
CallbackObserve(s) ==
    /\ cb[s].pc = "observe"
    /\ cb' = [cb EXCEPT ![s] = IdleCb]
    /\ IF sobs[s] = "fwd"
       THEN /\ vqueue' = Append(vqueue, cb[s].k)
            /\ UNCHANGED sstate
       ELSE /\ sstate' = [sstate EXCEPT ![s] = "aborted"]
            /\ UNCHANGED vqueue
    /\ UNCHANGED <<recording, paused, stream, sobs>>
    /\ UNCHANGED <<guiVars, buffer, hw, log>>
    /\ UNCHANGED <<tmVars, wavVars, devVars>>

\* ------------------------------------------------ AudioVisualizer (GUI thread)
\* What the queued entries can show when they are read.  update queues the
\* array it was given (visualization.py line 149), and audio_callback gave
\* it indata (recorder.py line 52), the driver's input array, whose memory
\* the driver is free to reuse once the invocation has returned: the entry
\* queued in the invocation for block k shows block k or a block delivered
\* since.
Reads ==
    {q \in [1..Len(vqueue) -> 1..MaxBlocks] :
        \A i \in 1..Len(vqueue) : q[i] >= vqueue[i] /\ q[i] <= hw}

\* _process_audio_queue, visualization.py lines 158-165: take every queued
\* block and hand it to _update_visualizations; read[i] is what the i-th
\* entry shows.
ProcessAudioQueue(read) ==
    /\ gpc = "idle"
    /\ read \in Reads
    /\ vizReceived' = vizReceived \o read
    /\ vqueue' = <<>>
    /\ ret' = Returned("drain")
    /\ UNCHANGED <<recVars, buffer, hw, cb, log>>
    /\ UNCHANGED <<gpc, caller, plotReceived, quiet>>
    /\ UNCHANGED <<tmVars, wavVars, devVars>>

\* ------------------------------------------- save_recording (GUI thread)
\* The C conversion of a float to an integer: n / d rounded towards zero.
Truncate(n, d) == IF n >= 0 THEN n \div d ELSE -((-n) \div d)

\* The conversion of an integral value to int16.  Inside the int16 range it
\* is the value; outside, the C conversion from float is undefined and the
\* build decides: c = "wrap" keeps the low 16 bits, c = "saturate" gives the
\* nearest end of the range.
Int16Cast(v, c) ==
    IF v >= -32768 /\ v <= 32767 THEN v
    ELSE IF c = "wrap" THEN ((v + 32768) % 65536) - 32768
    ELSE IF v > 0 THEN 32767 ELSE -32768

\* recorder.py line 123, np.int16(audio_data * 32767), for one sample
\* q / SampleUnit.
Int16(q, c) == Int16Cast(Truncate(q * Int16Scale, SampleUnit), c)

\* ndarray.tobytes() of an int16 array: each value as two bytes, low byte
\* first, negative values in two's complement.
RECURSIVE ToBytes(_)
ToBytes(a) ==
    IF a = <<>> THEN <<>>
    ELSE <<(Head(a) % 65536) % 256, (Head(a) % 65536) \div 256>>
         \o ToBytes(Tail(a))

\* The i-th 16-bit sample a reader of the file decodes from its data.
Decoded(data, i) ==
    LET u == data[2 * i - 1] + 256 * data[2 * i]
    IN  IF u >= 32768 THEN u - 65536 ELSE u

\* The file wave.open(...) leaves after lines 125-129, given the int16 array:
\* writeframes counts len(data) // (sampwidth * nchannels) frames.
WaveFile(audio_int16) ==
    LET data == ToBytes(audio_int16) IN
    [nchannels |-> Channels, sampwidth |-> SampWidth,
     framerate |-> sampleRate,
     nframes |-> Len(data) \div (SampWidth * Channels),
     data |-> data]

\* save_recording with the factor 32768 in place of 32767.
SaveRecordingBy32768(c) ==
    /\ gpc = "idle"
    /\ IF buffer = <<>>
       THEN /\ ret' = Raised("save_empty")
            /\ UNCHANGED wav
       ELSE LET audio_data == Concatenate(buffer)
                audio_int16 == [i \in 1..Len(audio_data) |->
                                  Int16Cast(
                                      Truncate(audio_data[i] * (Int16Scale + 1),
                                               SampleUnit), c)]
            IN  /\ wav' = WaveFile(audio_int16)
                /\ ret' = Returned("save")
    /\ UNCHANGED <<recVars, cbVars, tmVars, sampleRate, devVars>>
    /\ UNCHANGED <<gpc, caller, vizReceived, plotReceived, quiet>>

\* save_recording, lines 106-136: ValueError on an empty buffer (lines
\* 108-109); otherwise concatenate, convert and write the file.  The file
\* name (lines 111-117) is not modelled and the write is taken to succeed.
SaveRecording(c) ==
    /\ gpc = "idle"
    /\ IF buffer = <<>>
       THEN /\ ret' = Raised("save_empty")
            /\ UNCHANGED wav
       ELSE LET audio_data == Concatenate(buffer)
                audio_int16 == [i \in 1..Len(audio_data) |->
                                  Int16(audio_data[i], c)]
            IN  /\ wav' = WaveFile(audio_int16)
                /\ ret' = Returned("save")
    /\ UNCHANGED <<recVars, cbVars, tmVars, sampleRate, devVars>>
    /\ UNCHANGED <<gpc, caller, vizReceived, plotReceived, quiet>>

\* ------------------------------------------------------- DeviceManager
\* Devices are plugged in or removed, or the system default changes: the
\* device layer reports another list or another default.
LayerChange ==
    /\ \E l \in Layers : \E d \in Defaults(l) :
          /\ <<l, d>> # <<hwDevices, hwDefault>>
          /\ hwDevices' = l
          /\ hwDefault' = d
    /\ UNCHANGED <<devices, dret>>
    /\ UNCHANGED <<recVars, cbVars, guiVars, tmVars, wavVars>>

\* get_devices that returns the list it holds without asking the layer.
GetDevicesCached(o) ==
    /\ dret' = DevReturned("get_devices", devices, NoDevice)
    /\ UNCHANGED <<hwDevices, hwDefault, devices>>
    /\ UNCHANGED <<recVars, cbVars, guiVars, tmVars, wavVars>>

\* get_devices (lines 61-64): _update_devices (lines 23-42), then return
\* self.devices.  o = "raise": the device layer raises; self.devices was
\* emptied at line 26 and the exception is raised again at line 42.
GetDevices(o) ==
    /\ IF o = "ok"
       THEN /\ devices' = UpdateDevices(hwDevices, hwDefault)
            /\ dret' = DevReturned("get_devices", devices', NoDevice)
       ELSE /\ devices' = <<>>
            /\ dret' = DevRaised("get_devices")
    /\ UNCHANGED <<hwDevices, hwDefault>>
    /\ UNCHANGED <<recVars, cbVars, guiVars, tmVars, wavVars>>

\* get_default_device (lines 66-71): the first device of self.devices whose
\* is_default is set, else self.devices[0], else None.
GetDefaultDevice ==
    /\ LET marked == SelectSeq(devices, LAMBDA a : a.is_default)
       IN dret' = DevReturned("get_default_device", <<>>,
                              IF marked # <<>> THEN Head(marked)
                              ELSE IF devices # <<>> THEN devices[1]
                              ELSE NoDevice)
    /\ UNCHANGED <<hwDevices, hwDefault, devices>>
    /\ UNCHANGED <<recVars, cbVars, guiVars, tmVars, wavVars>>

\* ------------------------------------ TranscriptionManager (client threads)
\* What a client thread does when initialize_model returns: go on with
\* start_processing (line 68), or return to its caller.
AfterInit(c) ==
    IF client[c].then = "start"
    THEN [pc |-> "sp_set", then |-> "return", target |-> NoThread]
    ELSE IdleClient

\* transcribe_audio, line 82: self._transcription_queue.put((audio_data,
\* callback)) on a queue.Queue() made without a maxsize (line 30).
TranscribeAudio(c) ==
    /\ client[c].pc = "idle"
    /\ submitted < MaxJobs
    /\ submitted' = submitted + 1
    /\ transcriptionQueue' = Append(transcriptionQueue, submitted + 1)
    /\ client' = [client EXCEPT ![c].pc = "ta_check"]
    /\ UNCHANGED <<model, isProcessing, processThread, resultQueue, lock,
                   worker, fate, stopCalled>>
    /\ UNCHANGED <<recVars, cbVars, guiVars, wavVars, devVars>>

\* transcribe_audio without its call of start_processing.
TranscribeCheckNoStart(c) ==
    /\ client[c].pc = "ta_check"
    /\ client' = [client EXCEPT ![c] = IdleClient]
    /\ UNCHANGED <<model, isProcessing, processThread, transcriptionQueue,
                   resultQueue, lock, worker, submitted, fate, stopCalled>>
    /\ UNCHANGED <<recVars, cbVars, guiVars, wavVars, devVars>>

\* transcribe_audio, lines 83-84: if not self._is_processing:
\* self.start_processing()
TranscribeCheck(c) ==
    /\ client[c].pc = "ta_check"
    /\ client' = [client EXCEPT ![c] = IF isProcessing THEN IdleClient
                                       ELSE [@ EXCEPT !.pc = "sp_check"]]
    /\ UNCHANGED <<model, isProcessing, processThread, transcriptionQueue,
                   resultQueue, lock, worker, submitted, fate, stopCalled>>
    /\ UNCHANGED <<recVars, cbVars, guiVars, wavVars, devVars>>

\* start_processing, lines 62-63, called by a client or by transcribe_audio.
StartProcessing(c) ==
    /\ client[c].pc \in {"idle", "sp_check"}
    /\ client' = [client EXCEPT ![c] = IF isProcessing THEN IdleClient
                                       ELSE [@ EXCEPT !.pc = "sp_model"]]
    /\ UNCHANGED <<model, isProcessing, processThread, transcriptionQueue,
                   resultQueue, lock, worker, submitted, fate, stopCalled>>
    /\ UNCHANGED <<recVars, cbVars, guiVars, wavVars, devVars>>

\* start_processing, lines 65-66: if not self.model: self.initialize_model().
\* Reading the attribute while it is deleted raises AttributeError, which
\* leaves start_processing.
StartProcessingModel(c) ==
    /\ client[c].pc = "sp_model"
    /\ client' = [client EXCEPT ![c] =
                    IF model = Deleted THEN IdleClient
                    ELSE IF model = NoModel
                         THEN [pc |-> "im_check", then |-> "start",
                               target |-> NoThread]
                         ELSE [@ EXCEPT !.pc = "sp_set"]]
    /\ UNCHANGED <<model, isProcessing, processThread, transcriptionQueue,
                   resultQueue, lock, worker, submitted, fate, stopCalled>>
    /\ UNCHANGED <<recVars, cbVars, guiVars, wavVars, devVars>>

\* initialize_model, lines 41-43, called by a client or by start_processing:
\* if self.model: del self.model.  Reading the attribute while it is deleted
\* raises AttributeError, caught at line 56: the call returns False.
InitializeModel(c) ==
    /\ client[c].pc \in {"idle", "im_check"}
    /\ IF model = Deleted
       THEN /\ client' = [client EXCEPT ![c] = AfterInit(c)]
            /\ UNCHANGED model
       ELSE /\ client' = [client EXCEPT ![c].pc = "im_load"]
            /\ model' = IF model \in ModelIds THEN Deleted ELSE model
    /\ UNCHANGED <<isProcessing, processThread, transcriptionQueue,
                   resultQueue, lock, worker, submitted, fate, stopCalled>>
    /\ UNCHANGED <<recVars, cbVars, guiVars, wavVars, devVars>>

\* initialize_model, lines 45-54: self.model = whisper.load_model(...).  The
\* load is taken to succeed.
LoadModel(c) ==
    /\ client[c].pc = "im_load"
    /\ client' = [client EXCEPT ![c] = AfterInit(c)]
    /\ FreeModels # {}
    /\ model' = NewModel
    /\ UNCHANGED <<isProcessing, processThread, transcriptionQueue,
                   resultQueue, lock, worker, submitted, fate, stopCalled>>
    /\ UNCHANGED <<recVars, cbVars, guiVars, wavVars, devVars>>

\* start_processing, lines 68-71: set the flag, make the thread, start it.
StartProcessingThread(c) ==
    /\ client[c].pc = "sp_set"
    /\ FreeWorkers # {}
    /\ isProcessing' = TRUE
    /\ processThread' = NewWorker
    /\ worker' = [worker EXCEPT ![NewWorker].pc = "test"]
    /\ client' = [client EXCEPT ![c] = IdleClient]
    /\ UNCHANGED <<model, transcriptionQueue, resultQueue, lock, submitted,
                   fate, stopCalled>>
    /\ UNCHANGED <<recVars, cbVars, guiVars, wavVars, devVars>>

\* stop_processing, lines 75-76: clear the flag, test self._process_thread.
StopProcessing(c) ==
    /\ client[c].pc = "idle"
    /\ isProcessing' = FALSE
    /\ stopCalled' = TRUE
    /\ client' = [client EXCEPT ![c] =
                    IF processThread = NoThread THEN IdleClient
                    ELSE [pc |-> "join", then |-> "return",
                          target |-> processThread]]
    /\ UNCHANGED <<model, processThread, transcriptionQueue, resultQueue,
                   lock, worker, submitted, fate>>
    /\ UNCHANGED <<recVars, cbVars, guiVars, wavVars, devVars>>

\* stop_processing, line 77: self._process_thread.join() returns when the
\* thread has ended.
StopProcessingJoin(c) ==
    /\ client[c].pc = "join"
    /\ worker[client[c].target].pc = "dead"
    /\ client' = [client EXCEPT ![c] = IdleClient]
    /\ UNCHANGED <<model, isProcessing, processThread, transcriptionQueue,
                   resultQueue, lock, worker, submitted, fate, stopCalled>>
    /\ UNCHANGED <<recVars, cbVars, guiVars, wavVars, devVars>>

\* ------------------------------------- _process_queue (one thread per start)
\* line 88: while self._is_processing
WorkerTest(w) ==
    /\ worker[w].pc = "test"
    /\ worker' = [worker EXCEPT ![w] = IF isProcessing
                                       THEN [@ EXCEPT !.pc = "get"]
                                       ELSE DeadWorker]
    /\ UNCHANGED <<model, isProcessing, processThread, transcriptionQueue,
                   resultQueue, lock, client, submitted, fate, stopCalled>>
    /\ UNCHANGED <<recVars, cbVars, guiVars, wavVars, devVars>>

\* line 90: self._transcription_queue.get(timeout=1.0) takes the oldest job;
\* on an empty queue it raises queue.Empty after the timeout and lines 95-96
\* go back to the loop test.
WorkerGet(w) ==
    /\ worker[w].pc = "get"
    /\ IF transcriptionQueue = <<>>
       THEN /\ worker' = [worker EXCEPT ![w].pc = "test"]
            /\ UNCHANGED transcriptionQueue
       ELSE /\ worker' = [worker EXCEPT ![w] =
                            [pc |-> "lock", job |-> Head(transcriptionQueue),
                             using |-> NoModel]]
            /\ transcriptionQueue' = Tail(transcriptionQueue)
    /\ UNCHANGED <<model, isProcessing, processThread, resultQueue, lock,
                   client, submitted, fate, stopCalled>>
    /\ UNCHANGED <<recVars, cbVars, guiVars, wavVars, devVars>>

\* _transcribe without "with self._lock": the call of model.transcribe does
\* not wait for the one in progress.
WorkerBeginNoLock(w) ==
    /\ worker[w].pc = "lock"
    /\ IF model \in ModelIds
       THEN /\ lock' = w
            /\ worker' = [worker EXCEPT ![w].pc = "infer", ![w].using = model]
            /\ UNCHANGED fate
       ELSE /\ fate' = [fate EXCEPT ![worker[w].job] = "failed"]
            /\ worker' = [worker EXCEPT ![w].pc = "test", ![w].job = 0]
            /\ UNCHANGED lock
    /\ UNCHANGED <<model, isProcessing, processThread, transcriptionQueue,
                   resultQueue, client, submitted, stopCalled>>
    /\ UNCHANGED <<recVars, cbVars, guiVars, wavVars, devVars>>

\* _transcribe, lines 103-104: take self._lock, call self.model.transcribe.
\* With self.model None or deleted the call raises at once; the with block
\* gives the lock back, lines 128-130 raise again and lines 97-98 log.
WorkerBegin(w) ==
    /\ worker[w].pc = "lock"
    /\ lock = NoThread
    /\ IF model \in ModelIds
       THEN /\ lock' = w
            /\ worker' = [worker EXCEPT ![w].pc = "infer", ![w].using = model]
            /\ UNCHANGED fate
       ELSE /\ fate' = [fate EXCEPT ![worker[w].job] = "failed"]
            /\ worker' = [worker EXCEPT ![w].pc = "test", ![w].job = 0]
            /\ UNCHANGED lock
    /\ UNCHANGED <<model, isProcessing, processThread, transcriptionQueue,
                   resultQueue, client, submitted, stopCalled>>
    /\ UNCHANGED <<recVars, cbVars, guiVars, wavVars, devVars>>

\* _process_queue without its "except Exception" clause: an exception of
\* _transcribe ends the thread.
WorkerEndFatal(w, r) ==
    /\ worker[w].pc = "infer"
    /\ lock' = NoThread
    /\ IF r = "ok"
       THEN /\ worker' = [worker EXCEPT ![w].pc = "callback",
                                        ![w].using = NoModel]
            /\ UNCHANGED fate
       ELSE /\ fate' = [fate EXCEPT ![worker[w].job] = "failed"]
            /\ worker' = [worker EXCEPT ![w] = DeadWorker]
    /\ UNCHANGED <<model, isProcessing, processThread, transcriptionQueue,
                   resultQueue, client, submitted, stopCalled>>
    /\ UNCHANGED <<recVars, cbVars, guiVars, wavVars, devVars>>

\* _transcribe, lines 104-130: model.transcribe and the processing of its
\* result return (r = "ok") or raise; the lock is given back either way.  An
\* exception is raised again at line 130 and logged at lines 97-98.
WorkerEnd(w, r) ==
    /\ worker[w].pc = "infer"
    /\ lock' = NoThread
    /\ IF r = "ok"
       THEN /\ worker' = [worker EXCEPT ![w].pc = "callback",
                                        ![w].using = NoModel]
            /\ UNCHANGED fate
       ELSE /\ fate' = [fate EXCEPT ![worker[w].job] = "failed"]
            /\ worker' = [worker EXCEPT ![w] =
                            [pc |-> "test", job |-> 0, using |-> NoModel]]
    /\ UNCHANGED <<model, isProcessing, processThread, transcriptionQueue,
                   resultQueue, client, submitted, stopCalled>>
    /\ UNCHANGED <<recVars, cbVars, guiVars, wavVars, devVars>>

\* _process_queue with the callback's exception caught around line 93 alone:
\* line 94 still runs.
WorkerCallbackThenPut(w, k) ==
    /\ worker[w].pc = "callback"
    /\ fate' = [fate EXCEPT ![worker[w].job] =
                  IF k = "none" THEN @ ELSE IF k = "ok" THEN "called"
                  ELSE "raised"]
    /\ worker' = [worker EXCEPT ![w].pc = "put"]
    /\ UNCHANGED <<model, isProcessing, processThread, transcriptionQueue,
                   resultQueue, lock, client, submitted, stopCalled>>
    /\ UNCHANGED <<recVars, cbVars, guiVars, wavVars, devVars>>

\* lines 92-93: if callback: callback(result).  An exception of the callback
\* is caught at line 97: line 94 is skipped.
WorkerCallback(w, k) ==
    /\ worker[w].pc = "callback"
    /\ fate' = [fate EXCEPT ![worker[w].job] =
                  IF k = "none" THEN @ ELSE IF k = "ok" THEN "called"
                  ELSE "raised"]
    /\ worker' = [worker EXCEPT ![w] =
                    IF k = "raise"
                    THEN [pc |-> "test", job |-> 0, using |-> NoModel]
                    ELSE [@ EXCEPT !.pc = "put"]]
    /\ UNCHANGED <<model, isProcessing, processThread, transcriptionQueue,
                   resultQueue, lock, client, submitted, stopCalled>>
    /\ UNCHANGED <<recVars, cbVars, guiVars, wavVars, devVars>>

\* line 94: self._result_queue.put(result)
WorkerPut(w) ==
    /\ worker[w].pc = "put"
    /\ resultQueue' = Append(resultQueue, worker[w].job)
    /\ worker' = [worker EXCEPT ![w] =
                    [pc |-> "test", job |-> 0, using |-> NoModel]]
    /\ UNCHANGED <<model, isProcessing, processThread, transcriptionQueue,
                   lock, client, submitted, fate, stopCalled>>
    /\ UNCHANGED <<recVars, cbVars, guiVars, wavVars, devVars>>

\* ------------------------------------------------------------ specification
\* The recorder driven by an application that passes no observer or the GUI's
\* observer, and reads the buffer with get_audio_data.
Next ==
    \/ \E o \in {"none", "gui"}, r \in StartOutcomes : StartRecording(o, r)
    \/ StopRecordingBegin
    \/ \E r \in StopOutcomes : StopRecordingStream(r)
    \/ PauseRecording
    \/ ResumeRecording
    \/ ClearBuffer
    \/ GetAudioDataBegin("api")
    \/ GetAudioDataConcat
    \/ \E s \in Streams : CallbackEnter(s)
    \/ \E s \in Streams : CallbackAppend(s)
    \/ \E s \in Streams : CallbackObserve(s)

Spec == Init /\ [][Next]_vars

\* The recorder feeding its two display consumers: AudioVisualizer through
\* the observer, AudioPlot through get_audio_data.
NextConsumers ==
    \/ \E o \in {"fwd", "gui"} : StartRecording(o, "ok")
    \/ StopRecordingBegin
    \/ StopRecordingStream("ok")
    \/ GetAudioDataBegin("plot")
    \/ GetAudioDataConcat
    \/ \E read \in Reads : ProcessAudioQueue(read)
    \/ \E s \in Streams : CallbackEnter(s)
    \/ \E s \in Streams : CallbackAppend(s)
    \/ \E s \in Streams : CallbackObserve(s)

SpecConsumers == Init /\ [][NextConsumers]_vars

\* The transcription manager called from two threads.  A client that is
\* inside a method goes on with it; an idle one makes the calls of its role.
ClientStep(c) ==
    \/ c = "submit" /\ TranscribeAudio(c)
    \/ TranscribeCheck(c)
    \/ (c = "control" \/ client[c].pc # "idle") /\ StartProcessing(c)
    \/ StartProcessingModel(c)
    \/ (c = "control" \/ client[c].pc # "idle") /\ InitializeModel(c)
    \/ LoadModel(c)
    \/ StartProcessingThread(c)
    \/ c = "control" /\ StopProcessing(c)
    \/ StopProcessingJoin(c)

WorkerStep(w) ==
    \/ WorkerTest(w)
    \/ WorkerGet(w)
    \/ WorkerBegin(w)
    \/ \E r \in InferOutcomes : WorkerEnd(w, r)
    \/ \E k \in Callbacks : WorkerCallback(w, k)
    \/ WorkerPut(w)

NextManager ==
    \/ \E c \in Clients : ClientStep(c)
    \/ \E w \in Workers : WorkerStep(w)

SpecManager == Init /\ [][NextManager]_vars

\* A client that is inside a method goes on with it.
ClientContinue(c) ==
    /\ client[c].pc # "idle"
    /\ ClientStep(c)

\* The manager under fair scheduling: every thread that can take a step
\* takes one in the end.  A worker's wait on the queue ends after one second
\* (line 90), the interpreter switches between runnable threads, and a model
\* load or an inference that has started comes to an end.  Nothing obliges an
\* idle client to make another call.
SpecManagerFair ==
    /\ SpecManager
    /\ \A w \in Workers : WF_vars(WorkerStep(w))
    /\ \A c \in Clients : WF_vars(ClientContinue(c))

\* save_recording applied to a recorder that holds a captured buffer.
\* A block as the callback stored it: BlockSize frames of Channels samples.
SaveBlocks == [1..(BlockSize * Channels) -> SampleValues]
SaveInputs == UNION {[1..n -> SaveBlocks] : n \in 0..MaxSaveBlocks}

InitSaveFrom(inputs) ==
    /\ recording = FALSE
    /\ paused = FALSE
    /\ stream = NoStream
    /\ sstate = [s \in Streams |-> "closed"]
    /\ sobs = [s \in Streams |-> "none"]
    /\ buffer \in inputs
    /\ hw = 0
    /\ cb = [s \in Streams |-> IdleCb]
    /\ gpc = "idle"
    /\ caller = "api"
    /\ vqueue = <<>>
    /\ vizReceived = <<>>
    /\ plotReceived = <<>>
    /\ log = <<>>
    /\ quiet = FALSE
    /\ ret = Returned("init")
    /\ InitManager
    /\ sampleRate \in SampleRates
    /\ wav = NoFile
    /\ InitDevices(<<1>>, 0)

InitSave == InitSaveFrom(SaveInputs)

NextSave == \E c \in CastOutcomes : SaveRecording(c)

SpecSave == InitSave /\ [][NextSave]_vars

\* save_recording applied to a buffer of one block whose samples may lie
\* outside [-1.0, 1.0].
LoudInputs == {<<b>> : b \in [1..(BlockSize * Channels) -> LoudValues]}

InitSaveLoud == InitSaveFrom(LoudInputs)

SpecSaveLoud == InitSaveLoud /\ [][NextSave]_vars

\* The recorder with the holding of self._lock visible, and the callbacks
\* of the driver thread.
NextLock ==
    \/ \E o \in {"none", "fwd"} : StartRecording(o, "ok")
    \/ StopRecordingBegin
    \/ StopRecordingStream("ok")
    \/ \E op \in LockOps : WithLock(op)
    \/ LockedBody
    \/ GetAudioDataBegin("api")
    \/ GetAudioDataConcat
    \/ \E s \in Streams : CallbackEnter(s)
    \/ \E s \in Streams : CallbackAppend(s)
    \/ \E s \in Streams : CallbackObserve(s)

SpecLock == Init /\ [][NextLock]_vars

\* A DeviceManager created on any device list, with its callers and the
\* device layer's changes.
LayerOutcomes == {"ok", "raise"}

InitDeviceManager ==
    /\ recording = FALSE
    /\ paused = FALSE
    /\ stream = NoStream
    /\ sstate = [s \in Streams |-> "closed"]
    /\ sobs = [s \in Streams |-> "none"]
    /\ buffer = <<>>
    /\ hw = 0
    /\ cb = [s \in Streams |-> IdleCb]
    /\ gpc = "idle"
    /\ caller = "api"
    /\ vqueue = <<>>
    /\ vizReceived = <<>>
    /\ plotReceived = <<>>
    /\ log = <<>>
    /\ quiet = FALSE
    /\ ret = Returned("init")
    /\ InitManager
    /\ sampleRate = 44100
    /\ wav = NoFile
    /\ \E l \in Layers : \E d \in Defaults(l) : InitDevices(l, d)

NextDevices ==
    \/ LayerChange
    \/ \E o \in LayerOutcomes : GetDevices(o)
    \/ GetDefaultDevice

SpecDevices == InitDeviceManager /\ [][NextDevices]_vars

TypeOK ==
    /\ recording \in BOOLEAN /\ paused \in BOOLEAN
    /\ stream \in {NoStream} \cup Streams
    /\ hw \in 0..MaxBlocks
    /\ gpc \in {"idle", "stopping", "concat"} \cup LockOps
    /\ \A s \in Streams : cb[s].pc \in {"idle", "append", "observe"}

\* ------------------------------------------------------------------ claims
AllIdle == \A s \in Streams : cb[s].pc = "idle"

OpenStreams == {s \in Streams : sstate[s] # "closed"}

\* The samples of the blocks with the given ids, block after block.
Samples(ids) ==
    [j \in 1..(Len(ids) * BlockSize) |->
        (ids[((j - 1) \div BlockSize) + 1] - 1) * BlockSize
            + ((j - 1) % BlockSize) + 1]

IsPrefix(a, b) == Len(a) <= Len(b) /\ SubSeq(b, 1, Len(a)) = a

\* The sequence number the recorder keeps for the i-th buffered block: the
\* buffer stores the copied samples only (recorder.py line 50), so a block is
\* numbered by its place in the list.
SeqNo(i) == i

\* C1: once stop_recording has returned and until start_recording is called
\* again, no step makes the buffer longer.
CE_C1 == [][(quiet /\ quiet') => Len(buffer') <= Len(buffer)]_vars

\* C2: get_audio_data returns the samples of exactly the blocks appended so
\* far (since the buffer was last cleared), each once, in append order; it
\* returns None only when no block is buffered.
Thm_C2 ==
    [][ /\ (gpc = "concat" /\ caller = "api" /\ gpc' = "idle")
            => ret'.value = Data(Samples(log))
        /\ (gpc = "idle" /\ ret' # ret /\ ret'.path = "get_none")
            => log = <<>> ]_vars

\* C2 witness: a read returned two blocks while a callback was about to
\* append a third.
Wit_C2 ==
    /\ ret.path = "get_data"
    /\ Len(ret.value.data) = 2 * BlockSize
    /\ \E s \in Streams : cb[s].pc = "append"

\* C3 as stated: while the recorder is paused no step makes the buffer longer.
CE_C3 == [][(paused /\ paused') => Len(buffer') <= Len(buffer)]_vars

\* C3 amended: a callback invocation that reads the paused flag while the
\* recorder is paused discards its block (nothing is buffered, nothing goes to
\* the observer, no invocation keeps the block); one that reads it while the
\* recorder is not paused keeps the block for buffering.
Thm_C3 ==
    [][ /\ (paused /\ hw' = hw + 1)
            => /\ buffer' = buffer
               /\ vqueue' = vqueue
               /\ \A s \in Streams : cb'[s].k # hw' /\ cb'[s].pc = cb[s].pc
        /\ (~paused /\ hw' = hw + 1)
            => \E s \in Streams : cb'[s] = [pc |-> "append", k |-> hw'] ]_vars

\* C3 witness: a block was dropped during a pause and a later one buffered
\* after resume.
Wit_C3 ==
    /\ ~paused
    /\ AllIdle
    /\ \E i \in 1..(Len(log) - 1) : log[i + 1] > log[i] + 1

\* C4: what a display consumer has received is a beginning of the appended
\* blocks, each once and in append order, and a drain made while no callback
\* is running leaves the visualizer with all of them.
CE_C4 ==
    [][ /\ IsPrefix(plotReceived', Samples(log'))
        /\ IsPrefix(vizReceived', log')
        /\ ((\E read \in Reads : ProcessAudioQueue(read)) /\ AllIdle)
              => vizReceived' = log ]_vars

\* C5: where hardware blocks were dropped between two neighbours of the
\* buffer, the sequence numbers of the two neighbours show a gap.
CE_C5 ==
    \A i \in 1..(Len(buffer) - 1) :
        BlockId(buffer[i + 1]) > BlockId(buffer[i]) + 1
            => SeqNo(i + 1) > SeqNo(i) + 1

\* C6: no exception leaves audio_callback: no stream is ended by one.
CE_C6 == \A s \in Streams : sstate[s] # "aborted"

Thm_C8 ==
    [][ (~recording /\ StopRecordingBegin)
            => /\ UNCHANGED <<recVars, cbVars, gpc>>
               /\ ret' = Returned("stop_noop") ]_vars

\* C8 witness: a second stop_recording after a recording was stopped.
Wit_C8 ==
    /\ ret.path = "stop_noop"
    /\ stream = NoStream
    /\ buffer # <<>>

\* C9: at most one input stream is open.
CE_C9 == Cardinality(OpenStreams) <= 1

\* C10: a start_recording that failed to open or to start the stream has
\* raised and left the recorder not recording.
CE_C10 ==
    ret.path \in {"start_openfail", "start_startfail"}
        => ret.raised /\ ~recording

\* A start_recording call that started a stream.
StartSucceeds ==
    \E o \in Observers, r \in StartOutcomes :
        StartRecording(o, r) /\ ret'.path = "start_ok"

\* C26: a successful start_recording leaves the buffer without the blocks of
\* the session before it, so that get_audio_data and save_recording give
\* only blocks captured since that start.
CE_C26 == [][StartSucceeds => buffer' = <<>>]_vars

\* C27: a successful start_recording leaves the recorder recording and not
\* paused (the first block delivered afterwards is buffered).
CE_C27 == [][StartSucceeds => recording' /\ ~paused']_vars

\* C25: the blocks the visualizer takes from its queue are the blocks the
\* observer was handed: what a queued block holds is not changed by the
\* callback invocations that came after it.
CE_C25 ==
    [][\A read \in Reads :
          ProcessAudioQueue(read) => vizReceived' = vizReceived \o vqueue]_vars

QueueCapacity == MaxJobs - 1

\* The worker threads that have been started and have not ended.
Alive == {w \in Workers : worker[w].pc # "dead"}

\* The jobs a worker took from the queue and has finished with.
Held == {worker[w].job : w \in Alive} \ {0}
Queued == {transcriptionQueue[i] : i \in 1..Len(transcriptionQueue)}
Finished == (1..submitted) \ (Queued \cup Held)

\* The number of entries of job j in the result queue.
Entries(j) == Cardinality({i \in 1..Len(resultQueue) : resultQueue[i] = j})

\* C11: the transcription queue never holds more jobs than its capacity (a
\* transcribe_audio call on a full queue fails instead of enqueuing).
CE_C11 == Len(transcriptionQueue) <= QueueCapacity

\* A step in which client c leaves start_processing or transcribe_audio
\* without an exception (line 65 raises AttributeError when it reads
\* self.model while the attribute is deleted).
CallReturns(c) ==
    /\ client[c].pc \in {"ta_check", "sp_check", "sp_model", "sp_set"}
    /\ client'[c].pc = "idle"
    /\ ~(client[c].pc = "sp_model" /\ model = Deleted)

CE_C15 ==
    /\ [](\A i \in 1..Len(resultQueue), k \in 1..Len(resultQueue) :
            i < k => resultQueue[i] < resultQueue[k])
    /\ [][\A w \in Workers :
            (worker[w].pc = "lock" /\ worker'[w].pc = "infer") =>
                \A v \in Workers \ {w} :
                    ~(worker[v].pc = "lock" /\ worker[v].job < worker[w].job)
         ]_vars

\* The worker threads that are inside model.transcribe.
Inferring == {w \in Workers : worker[w].pc = "infer"}

\* C16: at most one thread is inside model.transcribe at any time, and it is
\* the thread that holds the lock.
Thm_C16 ==
    /\ Cardinality(Inferring) <= 1
    /\ \A w \in Inferring : lock = w

\* Two worker threads run; one is inside model.transcribe and the other has
\* taken a job and waits for the lock.
Wit_C16 ==
    \E w \in Inferring : \E v \in Workers \ {w} : worker[v].pc = "lock"

\* C17: under fair scheduling a stop_processing call that waits in join
\* returns.
CE_C17 ==
    \A c \in Clients : (client[c].pc = "join") ~> (client[c].pc = "idle")

\* C18: at most one model is in memory at any time, and a model is loaded
\* only when none is in memory (the first load finds none, a reload has
\* released the one before).
CE_C18 ==
    /\ [](Cardinality(Resident) <= 1)
    /\ [][(model' \in ModelIds /\ model' # model) => Resident = {}]_vars

\* C19: while a worker is inside model.transcribe, self.model is the model
\* the call was made on: no other thread has deleted or replaced it.
CE_C19 == \A w \in Inferring : model = worker[w].using

\* C24: a job whose callback has been invoked (it returned or it raised) has
\* its result in the result queue: the result is put before the callback is
\* invoked, so it is there also when the callback raises.
CE_C24 == \A j \in Jobs : fate[j] \in {"called", "raised"} => Entries(j) >= 1

\* C29: at most one thread running _process_queue is alive at any time.
CE_C29 == Cardinality(Alive) <= 1

\* ------------------------------------------------------ save_recording claims
\* The absolute value of an integer.
Abs(n) == IF n >= 0 THEN n ELSE -n

\* C20: after save_recording of a buffer of N samples in [-1.0, 1.0] at
\* sample rate R the file is mono with N frames, frame rate R and 2 bytes
\* per sample, every decoded sample is within one unit of its input times
\* 32767, and 0.5 is written as 16383.
Thm_C20 ==
    ret.path = "save" =>
        LET audio_data == Concatenate(buffer) IN
        /\ wav.nchannels = 1
        /\ wav.nframes = Len(audio_data)
        /\ wav.framerate = sampleRate
        /\ wav.sampwidth = 2
        /\ Len(wav.data) = 2 * Len(audio_data)
        /\ \A i \in 1..Len(audio_data) :
              /\ Abs(Decoded(wav.data, i) * SampleUnit
                        - audio_data[i] * Int16Scale) <= SampleUnit
              /\ 2 * audio_data[i] = SampleUnit
                    => Decoded(wav.data, i) = 16383

\* A buffer of MaxSaveBlocks blocks that holds 0.5, -1.0, 1.0 and a negative
\* sample whose scaled value is not an integer has been saved.
Wit_C20 ==
    /\ ret.path = "save"
    /\ Len(buffer) = MaxSaveBlocks
    /\ LET audio_data == Concatenate(buffer) IN
       /\ \E i \in 1..Len(audio_data) :
             2 * audio_data[i] = SampleUnit /\ Decoded(wav.data, i) = 16383
       /\ \E i \in 1..Len(audio_data) :
             audio_data[i] = -SampleUnit /\ Decoded(wav.data, i) = -32767
       /\ \E i \in 1..Len(audio_data) :
             audio_data[i] = SampleUnit /\ Decoded(wav.data, i) = 32767
       /\ \E i \in 1..Len(audio_data) :
             audio_data[i] = -1 /\ Decoded(wav.data, i) = -4095

\* C21: in the file save_recording wrote, a sample above 1.0 is the largest
\* int16 value and a sample below -1.0 the smallest (or its negation of the
\* largest): it is clipped, not wrapped.
CE_C21 ==
    ret.path = "save" =>
        LET audio_data == Concatenate(buffer) IN
        \A i \in 1..Len(audio_data) :
            /\ audio_data[i] > SampleUnit => Decoded(wav.data, i) = 32767
            /\ audio_data[i] < -SampleUnit
                  => Decoded(wav.data, i) \in {-32768, -32767}

\* ------------------------------------------------------ DeviceManager claims
\* The devices the layer reports now that have an input channel, by index.
InputCapable == {i \in 0..(Len(hwDevices) - 1) : hwDevices[i + 1] > 0}

\* C22: a get_devices call that the device layer answers returns the
\* devices the layer reports at the time of the call that have at least one
\* input channel, each once and in index order, so the empty list when
\* there is none; it raises only when the device layer raises.
Thm_C22 ==
    [][\A o \in LayerOutcomes : GetDevices(o) =>
          /\ dret'.raised <=> o = "raise"
          /\ o = "ok" =>
                LET list == dret'.list IN
                /\ {list[i].id : i \in 1..Len(list)} = InputCapable
                /\ \A i \in 1..Len(list) :
                      /\ list[i].channels = hwDevices[list[i].id + 1]
                      /\ \A j \in 1..Len(list) :
                            i < j => list[i].id < list[j].id
                /\ InputCapable = {} => list = <<>>]_vars

\* get_devices returned the empty list: the layer reports devices, none of
\* them with an input channel.
Wit_C22 ==
    /\ dret.path = "get_devices" /\ ~dret.raised
    /\ dret.list = <<>>
    /\ InputCapable = {}
    /\ Len(hwDevices) > 0

\* The value C23 describes, from what the layer reports now.
CurrentDefault ==
    LET list == UpdateDevices(hwDevices, hwDefault) IN
    IF \E i \in 1..Len(list) : list[i].id = hwDefault
    THEN AudioDevice(hwDefault, hwDevices[hwDefault + 1], hwDefault)
    ELSE IF list # <<>> THEN list[1]
    ELSE NoDevice

\* C23: get_default_device returns the default input device of the list the
\* layer reports at the time of the call, else that list's first device,
\* else None.
CE_C23 == [][GetDefaultDevice => dret'.dev = CurrentDefault]_vars

====
